---- MODULE Spec2Model ----
(***************************************************************************)
(* Model of flaskbb/auth/views.py: the login, registration, forgot-        *)
(* password and reset-password handlers, run by concurrent anonymous       *)
(* requests against one user store and one remote "cabinet" service.       *)
(* Each handler is cut at the points where it blocks on the store or on    *)
(* the remote service, so that requests interleave as they do between      *)
(* workers.                                                                *)
(***************************************************************************)
EXTENDS Integers, Sequences, FiniteSets, TLC

\* ---- bounds -------------------------------------------------------------
MaxSlots == 2
MaxRequests == 2
MaxClock == 2

\* ---- program constants --------------------------------------------------
HTTP_OK == 200
MemberGroup == 4
ExpiryWindow == 1

WrongLogin == "Wrong Username or Password."
ThanksMsg == "Thanks for registering."
MailSentMsg == "E-Mail sent! Please check your inbox."
NotLinkedMsg == "You have entered a Username or E-Mail Address that is not linked with your account."
TokenInvalidMsg == "Your Password Token is invalid."
TokenExpiredMsg == "Your Password Token is expired."
PasswordUpdatedMsg == "Your Password has been updated."

\* ---- input domains ------------------------------------------------------
None == "None"
Usernames == {"nina", "omar"}
Emails == {"nina@x.com", "omar@x.com"}
Passwords == {"p1", "p2"}
\* LoginForm.login has no format validator: a login may be an e-mail address
Logins == Usernames \cup {"nina@x.com"}
Slots == 1..MaxSlots

VARIABLES users, req, response, nreq, clock, mailbox

vars == <<users, req, response, nreq, clock, mailbox>>

\* ---- the user store -----------------------------------------------------
\* the salted hash kept in User._password
Hash(p) == <<"pbkdf2", p>>

check_password(u, p) == u.password = Hash(p)

NewUser(store, username, email, password, group) ==
    [id |-> Cardinality(store) + 1, username |-> username, email |-> email,
     password |-> Hash(password), primary_group_id |-> group]

\* a users table whose username column lost its unique index
ConflictEmailOnly(store, u) ==
    \E v \in store : v.email = u.email

\* the uniqueness constraints of the users table
Conflict(store, u) ==
    \E v \in store : v.username = u.username \/ v.email = u.email

\* User.query.filter(username == login or email == login)
Matching(store, login) ==
    {u \in store : u.username = login \/ u.email = login}

\* User.query.filter_by(email=...)
ByEmail(store, email) == {u \in store : u.email = email}

UserById(store, id) == CHOOSE u \in store : u.id = id

\* ---- the remote identity service ----------------------------------------
\* what requests.post can produce: an exception, or a response with a
\* status code and a body (empty, not JSON, or a JSON object)
Body(kind, status, email) == [kind |-> kind, status |-> status, email |-> email]

Responses ==
    {[raised |-> TRUE, status_code |-> 0, text |-> Body("empty", "absent", "absent")],
     [raised |-> FALSE, status_code |-> 500, text |-> Body("object", "OK", "absent")],
     [raised |-> FALSE, status_code |-> HTTP_OK, text |-> Body("empty", "absent", "absent")],
     [raised |-> FALSE, status_code |-> HTTP_OK, text |-> Body("garbage", "absent", "absent")],
     [raised |-> FALSE, status_code |-> HTTP_OK, text |-> Body("object", "FAIL", "absent")],
     [raised |-> FALSE, status_code |-> HTTP_OK, text |-> Body("object", "absent", "absent")],
     [raised |-> FALSE, status_code |-> HTTP_OK, text |-> Body("object", "OK", "absent")]}
    \cup {[raised |-> FALSE, status_code |-> HTTP_OK, text |-> Body("object", "OK", e)] :
            e \in Emails}

\* the value a call hands back: an exception, or the returned tuple
Raise == [raised |-> TRUE, value |-> <<>>]
Return(v) == [raised |-> FALSE, value |-> v]

auth_cabinet_user(resp) ==
    IF resp.raised THEN Raise
    ELSE IF resp.status_code # HTTP_OK \/ resp.text.kind = "empty"
         THEN Return(<<FALSE>>)
    ELSE IF resp.text.kind # "object" THEN Raise
    ELSE IF resp.text.status # "OK" THEN Return(<<FALSE, None>>)
    ELSE Return(<<TRUE, IF resp.text.email = "absent" THEN None
                        ELSE resp.text.email>>)

create_cabinet_user(resp) ==
    IF resp.raised THEN Raise
    ELSE IF resp.status_code # HTTP_OK \/ resp.text.kind = "empty"
         THEN Return(<<FALSE>>)
    ELSE IF resp.text.kind # "object" THEN Raise
    ELSE IF resp.text.status # "OK" THEN Return(<<FALSE>>)
    ELSE Return(<<TRUE>>)

\* ---- requests -----------------------------------------------------------
NoToken == [uid |-> 0, issued |-> 0, intact |-> FALSE]

NoPost == [raised |-> FALSE, status_code |-> 0, text |-> Body("none", "absent", "absent")]

Idle ==
    [n |-> 0, kind |-> "none", pc |-> "idle", login |-> "", password |-> "",
     email |-> "", user |-> 0, authenticated |-> FALSE, result |-> <<>>,
     post |-> NoPost, created |-> 0, session |-> 0, calls |-> 0, flash |-> "",
     token |-> NoToken,
     expired |-> FALSE, invalid |-> FALSE, data |-> FALSE, again |-> FALSE]

Terminal ==
    {"Authenticated", "Rejected", "Error", "FormShown", "MailSent",
     "NotLinked", "TokenInvalid", "TokenExpired", "PasswordUpdated"}

\* workers are interchangeable: a request is taken by the first idle one
Free(r) ==
    /\ req[r].pc = "idle"
    /\ nreq < MaxRequests
    /\ \A s \in 1..(r - 1) : req[s].pc # "idle"

\* a new request: the validated form of an anonymous client
Request(kind) == [Idle EXCEPT !.kind = kind]

\* the handler moves on; when it returns, its response is sent (n counts
\* the responses) and the worker is free again
Advance(r, q) ==
    IF q.pc \in Terminal
    THEN /\ req' = [req EXCEPT ![r] = Idle]
         /\ response' = [q EXCEPT !.n = response.n + 1]
    ELSE /\ req' = [req EXCEPT ![r] = q]
         /\ response' = response

\* the member a store may hold at start: registered through the form
Member ==
    [id |-> 1, username |-> "nina", email |-> "nina@x.com",
     password |-> Hash("p1"), primary_group_id |-> MemberGroup]

\* the reset token this member may have been sent at time 0
MemberToken == [uid |-> 1, issued |-> 0, intact |-> TRUE]

\* no request in flight; the store is empty, or holds one registered
\* member, who may already have asked for a reset token
Init ==
    /\ req = [r \in Slots |-> Idle]
    /\ response = Idle
    /\ nreq = 0
    /\ clock = 0
    /\ \/ users = {} /\ mailbox = {}
       \/ users = {Member} /\ mailbox = {}
       \/ users = {Member} /\ mailbox = {MemberToken}

\* ---- login --------------------------------------------------------------
\* the local branch lost: every login goes on to the remote service
LoginLocalAlwaysRemote(q, user, authenticated) ==
    [q EXCEPT !.user = user, !.authenticated = authenticated,
              !.pc = "RemoteAttempt"]

\* the local branch taken for any user found, whatever the password check
LoginLocalUserOnly(q, user, authenticated) ==
    IF user # 0
    THEN [q EXCEPT !.user = user, !.authenticated = authenticated,
                   !.session = user, !.pc = "Authenticated"]
    ELSE [q EXCEPT !.user = user, !.authenticated = authenticated,
                   !.pc = "RemoteAttempt"]

\* lines 57-65: User.authenticate, then the local branch
LoginLocalResult(q, user, authenticated) ==
    IF user # 0 /\ authenticated
    THEN [q EXCEPT !.user = user, !.authenticated = authenticated,
                   !.session = user, !.pc = "Authenticated"]
    ELSE [q EXCEPT !.user = user, !.authenticated = authenticated,
                   !.pc = "RemoteAttempt"]

LoginLocal(r) ==
    /\ Free(r)
    /\ \E login \in Logins, password \in Passwords :
         LET q == [Request("login") EXCEPT !.login = login,
                                           !.password = password]
             found == Matching(users, login)
         IN  IF found = {}
             THEN Advance(r, LoginLocalResult(q, 0, FALSE))
             ELSE \E u \in found :
                    Advance(r, LoginLocalResult(q, u.id, check_password(u, password)))
    /\ nreq' = nreq + 1
    /\ UNCHANGED <<users, clock, mailbox>>

\* a rejection that tells a known username from an unknown one
LoginRemoteTelling(q, ret) ==
    IF ret.raised \/ Len(ret.value) # 2
    THEN [q EXCEPT !.calls = @ + 1, !.pc = "Error"]
    ELSE IF ret.value[1]
    THEN [q EXCEPT !.calls = @ + 1, !.result = ret.value, !.pc = "Provision"]
    ELSE [q EXCEPT !.calls = @ + 1, !.result = ret.value,
                   !.flash = IF q.user # 0 THEN "Wrong password." ELSE WrongLogin,
                   !.pc = "Rejected"]

\* the returned tuple tested as a whole: a non-empty tuple is true
LoginRemoteTupleTruthy(q, ret) ==
    IF ret.raised \/ Len(ret.value) # 2
    THEN [q EXCEPT !.calls = @ + 1, !.pc = "Error"]
    ELSE [q EXCEPT !.calls = @ + 1, !.result = ret.value, !.pc = "Provision"]

\* lines 67-68 and 79: the remote call and the unpacking of its result
LoginRemoteResult(q, ret) ==
    IF ret.raised \/ Len(ret.value) # 2
    THEN [q EXCEPT !.calls = @ + 1, !.pc = "Error"]
    ELSE IF ret.value[1]
    THEN [q EXCEPT !.calls = @ + 1, !.result = ret.value, !.pc = "Provision"]
    ELSE [q EXCEPT !.calls = @ + 1, !.result = ret.value,
                   !.flash = WrongLogin, !.pc = "Rejected"]

LoginRemote(r) ==
    /\ req[r].kind = "login" /\ req[r].pc = "RemoteAttempt"
    /\ \E resp \in Responses :
         Advance(r, LoginRemoteResult([req[r] EXCEPT !.post = resp],
                                      auth_cabinet_user(resp)))
    /\ UNCHANGED <<users, nreq, clock, mailbox>>

\* the remote e-mail stored as it came, without the sentinel
ProvisionEmailRaw(email) == email

\* line 70: email or 'unknown'
ProvisionEmail(email) == IF email = None THEN "unknown" ELSE email

\* get-or-create: an existing account of that username is logged in
\* instead of a new one being saved
LoginProvisionGetOrCreate(r) ==
    /\ req[r].kind = "login" /\ req[r].pc = "Provision"
    /\ LET q == req[r]
           email == ProvisionEmail(q.result[2])
           u == NewUser(users, q.login, email, q.password, MemberGroup)
           same == {v \in users : v.username = q.login}
       IN  IF same # {}
           THEN /\ \E v \in same :
                      Advance(r, [q EXCEPT !.session = v.id,
                                           !.pc = "Authenticated"])
                /\ users' = users
           ELSE IF Conflict(users, u)
           THEN /\ Advance(r, [q EXCEPT !.pc = "Error"])
                /\ users' = users
           ELSE /\ users' = users \cup {u}
                /\ Advance(r, [q EXCEPT !.created = u.id, !.session = u.id,
                                        !.pc = "Authenticated"])
    /\ UNCHANGED <<nreq, clock, mailbox>>

\* lines 69-77: the new account, user.save() and login_user
LoginProvision(r) ==
    /\ req[r].kind = "login" /\ req[r].pc = "Provision"
    /\ LET q == req[r]
           email == ProvisionEmail(q.result[2])
           u == NewUser(users, q.login, email, q.password, MemberGroup)
       IN  IF Conflict(users, u)
           THEN /\ Advance(r, [q EXCEPT !.pc = "Error"])
                /\ users' = users
           ELSE /\ users' = users \cup {u}
                /\ Advance(r, [q EXCEPT !.created = u.id, !.session = u.id,
                                        !.pc = "Authenticated"])
    /\ UNCHANGED <<nreq, clock, mailbox>>

\* ---- registration -------------------------------------------------------
\* lines 148-149: the validated form and form.save()
RegisterSave(r) ==
    /\ Free(r)
    /\ \E username \in Usernames, password \in Passwords, email \in Emails :
         LET q == [Request("register") EXCEPT !.login = username,
                                              !.password = password,
                                              !.email = email]
             u == NewUser(users, username, email, password, MemberGroup)
         IN  IF Conflict(users, u)
             THEN /\ Advance(r, [q EXCEPT !.pc = "FormShown"])
                  /\ users' = users
             ELSE /\ users' = users \cup {u}
                  /\ Advance(r, [q EXCEPT !.user = u.id, !.created = u.id,
                                          !.pc = "Mirror"])
    /\ nreq' = nreq + 1
    /\ UNCHANGED <<clock, mailbox>>

\* lines 150-155: the mirror call, its result dropped, then login_user
RegisterMirrorResult(q, ret) ==
    IF ret.raised
    THEN [q EXCEPT !.calls = @ + 1, !.pc = "Error"]
    ELSE [q EXCEPT !.calls = @ + 1, !.result = ret.value, !.session = q.user,
                   !.flash = ThanksMsg, !.pc = "Authenticated"]

RegisterMirror(r) ==
    /\ req[r].kind = "register" /\ req[r].pc = "Mirror"
    /\ \E resp \in Responses :
         Advance(r, RegisterMirrorResult([req[r] EXCEPT !.post = resp],
                                         create_cabinet_user(resp)))
    /\ UNCHANGED <<users, nreq, clock, mailbox>>

\* ---- forgot password --------------------------------------------------
\* User.make_reset_token: a signed payload binding the user and the time
make_reset_token(u) == [uid |-> u.id, issued |-> clock, intact |-> TRUE]

\* the branch on the lookup lost: a token is made and mailed for whatever
\* the lookup returned
ForgotPasswordBlind(r) ==
    /\ Free(r)
    /\ \E email \in Emails :
         LET q == [Request("forgot") EXCEPT !.email = email]
             found == ByEmail(users, email)
             ids == IF found = {} THEN {0} ELSE {u.id : u \in found}
         IN  \E id \in ids :
                LET t == [uid |-> id, issued |-> clock, intact |-> TRUE]
                IN  /\ mailbox' = mailbox \cup {t}
                    /\ Advance(r, [q EXCEPT !.user = id, !.token = t,
                                            !.flash = MailSentMsg,
                                            !.pc = "MailSent"])
    /\ nreq' = nreq + 1
    /\ UNCHANGED <<users, clock>>

\* lines 169-182: lookup by e-mail, issue and send the token
ForgotPassword(r) ==
    /\ Free(r)
    /\ \E email \in Emails :
         LET q == [Request("forgot") EXCEPT !.email = email]
             found == ByEmail(users, email)
         IN  IF found = {}
             THEN /\ Advance(r, [q EXCEPT !.flash = NotLinkedMsg,
                                          !.pc = "NotLinked"])
                  /\ mailbox' = mailbox
             ELSE \E u \in found :
                    /\ mailbox' = mailbox \cup {make_reset_token(u)}
                    /\ Advance(r, [q EXCEPT !.user = u.id,
                                            !.token = make_reset_token(u),
                                            !.flash = MailSentMsg,
                                            !.pc = "MailSent"])
    /\ nreq' = nreq + 1
    /\ UNCHANGED <<users, clock>>

\* ---- reset password ---------------------------------------------------
\* the tokens a client can present: a delivered token, or one whose bytes
\* were altered or made up (its signature does not verify)
Tamper(t) == [t EXCEPT !.intact = FALSE]

Presentable == mailbox \cup {Tamper(t) : t \in mailbox} \cup {NoToken}

\* User.verify_reset_token: expired, invalid, data
verify_reset_token(u, t, now) ==
    LET invalid == ~t.intact \/ t.uid # u.id
        expired == ~invalid /\ now - t.issued > ExpiryWindow
    IN  [expired |-> expired, invalid |-> invalid, data |-> ~invalid]

\* what verification can hand back: for an intact token of another user
\* whose window has elapsed, both flags apply and expired may be set too
VerifyOutcomes(u, t, now) ==
    {verify_reset_token(u, t, now)} \cup
    (IF t.intact /\ t.uid # u.id /\ now - t.issued > ExpiryWindow
     THEN {[verify_reset_token(u, t, now) EXCEPT !.expired = TRUE]}
     ELSE {})

\* the token verified against its own bearer, not the user found by e-mail
ResetVerifyTokenOwner(u, t, now) ==
    VerifyOutcomes([u EXCEPT !.id = t.uid], t, now)

\* line 197: the token is verified against the user found by e-mail
ResetVerify(u, t, now) == VerifyOutcomes(u, t, now)

\* the branches without the test of expired
ResetBranchNoExpiry(v, userFound) ==
    IF v.invalid THEN "TokenInvalid"
    ELSE IF userFound /\ v.data THEN "PasswordUpdated"
    ELSE "FormShown"

\* the test of the payload turned around
ResetBranchDataNegated(v, userFound) ==
    IF v.invalid THEN "TokenInvalid"
    ELSE IF v.expired THEN "TokenExpired"
    ELSE IF userFound /\ ~v.data THEN "PasswordUpdated"
    ELSE "FormShown"

\* an expired token reported as an invalid one
ResetBranchExpiredAsInvalid(v, userFound) ==
    IF v.invalid \/ v.expired THEN "TokenInvalid"
    ELSE IF userFound /\ v.data THEN "PasswordUpdated"
    ELSE "FormShown"

\* the test of expired made before the test of invalid
ResetBranchExpiredFirst(v, userFound) ==
    IF v.expired THEN "TokenExpired"
    ELSE IF v.invalid THEN "TokenInvalid"
    ELSE IF userFound /\ v.data THEN "PasswordUpdated"
    ELSE "FormShown"

\* lines 199-211: the branches on the verification result
ResetBranch(v, userFound) ==
    IF v.invalid THEN "TokenInvalid"
    ELSE IF v.expired THEN "TokenExpired"
    ELSE IF userFound /\ v.data THEN "PasswordUpdated"
    ELSE "FormShown"

ResetFlash(outcome) ==
    IF outcome = "TokenInvalid" THEN TokenInvalidMsg
    ELSE IF outcome = "TokenExpired" THEN TokenExpiredMsg
    ELSE IF outcome = "PasswordUpdated" THEN PasswordUpdatedMsg
    ELSE ""

\* the new password assigned but never saved
ResetStoreNoSave(store, u, outcome, password) == store

\* lines 207-209: user.password = form.password.data; user.save()
ResetStore(store, u, outcome, password) ==
    IF outcome = "PasswordUpdated"
    THEN (store \ {u}) \cup {[u EXCEPT !.password = Hash(password)]}
    ELSE store

\* history, read by no handler: the response before this request was a
\* password update made with the same token for the same e-mail
UsedJustBefore(email, t) ==
    /\ response.kind = "reset"
    /\ response.pc = "PasswordUpdated"
    /\ response.token = t
    /\ response.email = email

\* lines 194-214
ResetPassword(r) ==
    /\ Free(r)
    /\ \E email \in Emails, t \in Presentable, password \in Passwords :
         LET q == [Request("reset") EXCEPT !.email = email,
                                           !.password = password,
                                           !.token = t,
                                           !.again = UsedJustBefore(email, t)]
             found == ByEmail(users, email)
         IN  IF found = {}
             THEN /\ Advance(r, [q EXCEPT !.pc = "Error"])
                  /\ users' = users
             ELSE \E u \in found : \E v \in ResetVerify(u, t, clock) :
                    LET outcome == ResetBranch(v, TRUE)
                    IN  /\ Advance(r, [q EXCEPT !.user = u.id,
                                                !.expired = v.expired,
                                                !.invalid = v.invalid,
                                                !.data = v.data,
                                                !.flash = ResetFlash(outcome),
                                                !.pc = outcome])
                        /\ users' = ResetStore(users, u, outcome, password)
    /\ nreq' = nreq + 1
    /\ UNCHANGED <<clock, mailbox>>

\* ---- time ---------------------------------------------------------------
\* time is read only when a token is issued or verified: the clock counts
\* from the first token on
Tick ==
    /\ clock < MaxClock
    /\ mailbox # {}
    /\ clock' = clock + 1
    /\ UNCHANGED <<users, req, response, nreq, mailbox>>

Next ==
    \/ \E r \in Slots : LoginLocal(r)
    \/ \E r \in Slots : LoginRemote(r)
    \/ \E r \in Slots : LoginProvision(r)
    \/ \E r \in Slots : RegisterSave(r)
    \/ \E r \in Slots : RegisterMirror(r)
    \/ \E r \in Slots : ForgotPassword(r)
    \/ \E r \in Slots : ResetPassword(r)
    \/ Tick

Spec == Init /\ [][Next]_vars

\* ---- properties ---------------------------------------------------------
Records == {response} \cup {req[r] : r \in Slots}

\* every account the login can match holds this password
LocallyValid(store, login, password) ==
    /\ Matching(store, login) # {}
    /\ \A u \in Matching(store, login) : check_password(u, password)

\* the remote service answered with a JSON object whose status is not "OK"
RemoteRejects(post) ==
    /\ ~post.raised
    /\ post.status_code = HTTP_OK
    /\ post.text.kind = "object"
    /\ post.text.status # "OK"

\* the remote service answered with a non-200 status code or an empty body
TransportFailure(post) ==
    /\ ~post.raised
    /\ post.text.kind # "none"
    /\ (post.status_code # HTTP_OK \/ post.text.kind = "empty")

RemoteAccepted(q) == Len(q.result) = 2 /\ q.result[1]

\* what the client sees of a response
Observable(q) == [pc |-> q.pc, flash |-> q.flash, session |-> q.session]

GenericRejection == [pc |-> "Rejected", flash |-> WrongLogin, session |-> 0]

\* C1: a login with a (login, password) pair the local store accepts ends,
\* in the step that checks it, in Authenticated with the session of a
\* matching user, and no request to the remote service was made for it;
\* it is never left in flight on its way to the remote service.
C1_LocalLoginNoRemote ==
    [][nreq' = nreq + 1 =>
         /\ \A r \in Slots :
               (req[r].pc = "idle" /\ req'[r].pc # "idle" /\ req'[r].kind = "login")
               => ~LocallyValid(users, req'[r].login, req'[r].password)
         /\ (/\ response'.n # response.n
             /\ response'.kind = "login"
             /\ LocallyValid(users, response'.login, response'.password))
            => /\ response'.pc = "Authenticated"
               /\ response'.calls = 0
               /\ response'.session \in
                    {u.id : u \in Matching(users, response'.login)}]_vars

C1_Witness ==
    /\ response.kind = "login"
    /\ response.pc = "Authenticated"
    /\ response.authenticated
    /\ response.session = response.user
    /\ response.user # 0
    /\ response.calls = 0

\* C2: a login that found no local account and that the remote service
\* answered with status "OK" ends in Authenticated with exactly one account
\* of that username, which the local store then accepts for the same
\* credentials.
C2_ProvisionedOnceThenLocal ==
    (response.kind = "login" /\ response.user = 0 /\ RemoteAccepted(response))
    => /\ response.pc = "Authenticated"
       /\ Cardinality({u \in users : u.username = response.login}) = 1
       /\ LocallyValid(users, response.login, response.password)

\* C3: a login whose remote call came back with a status code other than
\* 200 or with an empty body ends in Rejected with the generic message,
\* after that one call.
C3_TransportFailureRejected ==
    (response.kind = "login" /\ TransportFailure(response.post))
    => /\ response.pc = "Rejected"
       /\ response.flash = WrongLogin
       /\ response.calls = 1

\* C4: no two user records have the same username.
C4_UsernameUnique ==
    \A u, v \in users : u.username = v.username => u = v

C4_Witness ==
    /\ response.kind = "login"
    /\ response.user # 0
    /\ ~response.authenticated
    /\ RemoteAccepted(response)
    /\ response.pc \in Terminal
    /\ UserById(users, response.user).username = response.login
    /\ Cardinality({u \in users : u.username = response.login}) = 1

\* C5: a login for the username of an existing local account makes no
\* request to the remote service, whatever the password.
C5_RemoteOnlyFirstTime ==
    \A q \in Records :
       (q.kind = "login" /\ q.user # 0
          /\ UserById(users, q.user).username = q.login)
       => q.calls = 0

\* C6: when a login has just provisioned an account for a username that a
\* second login, still in flight, also found missing and the remote service
\* also accepted, the second login ends in Authenticated too and the
\* username has exactly one account.
C6_ConflictIsRetried ==
    [][\A r \in Slots :
          (/\ req[r].kind = "login" /\ req[r].pc = "Provision"
           /\ req[r].user = 0
           /\ response.kind = "login" /\ response.user = 0
           /\ response.created # 0
           /\ response.login = req[r].login
           /\ req'[r].pc = "idle")
          => /\ response'.pc = "Authenticated"
             /\ Cardinality({u \in users' : u.username = req[r].login}) = 1]_vars

\* C7: a login that the local store rejects and that the remote service
\* answers with a status other than "OK" shows the client the one generic
\* rejection, whether or not the login matched a local account.
C7_GenericRejection ==
    (/\ response.kind = "login"
     /\ ~(response.user # 0 /\ response.authenticated)
     /\ RemoteRejects(response.post))
    => Observable(response) = GenericRejection

C7_Witness ==
    /\ response.kind = "login"
    /\ response.user # 0
    /\ ~response.authenticated
    /\ RemoteRejects(response.post)
    /\ Observable(response) = GenericRejection

\* C8: the step in which a login that found no local account gets a status
\* other than "OK" from the remote service ends the login in Rejected,
\* leaves the user store as it was, creates no account and starts no
\* session.
C8_RejectionKeepsStore ==
    [][(/\ response'.n # response.n
        /\ response'.kind = "login"
        /\ response'.user = 0
        /\ RemoteRejects(response'.post))
       => /\ response'.pc = "Rejected"
          /\ users' = users
          /\ response'.created = 0
          /\ response'.session = 0]_vars

C8_Witness ==
    /\ response.kind = "login"
    /\ response.pc = "Rejected"
    /\ response.user = 0
    /\ RemoteRejects(response.post)
    /\ response.created = 0
    /\ response.session = 0
    /\ ~\E u \in users : u.username = response.login

\* C9: a registration that created its local account ends, whatever the
\* mirror call produced, with the account in the store and the session
\* started for it.
C9_MirrorFailureHarmless ==
    (response.kind = "register" /\ response.created # 0)
    => /\ response.pc = "Authenticated"
       /\ response.session = response.created
       /\ \E u \in users : u.id = response.created

\* C10: a stored password changes only in the step of a reset request
\* whose token was verified as neither invalid nor expired, for the user
\* of that request and to the password it submitted.
C10_ResetOnlyOnValidToken ==
    [][\A u \in users, v \in users' :
          (v.id = u.id /\ v.password # u.password)
          => /\ response'.n # response.n
             /\ response'.kind = "reset"
             /\ ~response'.invalid
             /\ ~response'.expired
             /\ response'.user = u.id
             /\ v.password = Hash(response'.password)]_vars

C10_Witness ==
    /\ response.kind = "reset"
    /\ response.pc = "PasswordUpdated"
    /\ ~response.invalid
    /\ ~response.expired
    /\ response.password = "p2"
    /\ response.user = Member.id
    /\ UserById(users, response.user).password = Hash("p2")

\* C11: a reset request whose e-mail resolves to one user and whose token,
\* signature intact, was issued for another user is verified as invalid,
\* ends in the "invalid" outcome and leaves every stored password as it was.
C11_CrossUserTokenInvalid ==
    [][(/\ response'.n # response.n
        /\ response'.kind = "reset"
        /\ response'.user # 0
        /\ response'.token \in mailbox
        /\ response'.token.uid # response'.user)
       => /\ response'.invalid
          /\ response'.pc = "TokenInvalid"
          /\ users' = users]_vars

C11_Witness ==
    /\ response.kind = "reset"
    /\ response.user # 0
    /\ response.token \in mailbox
    /\ response.token.uid # response.user
    /\ response.token.uid \in {u.id : u \in users}
    /\ response.invalid
    /\ response.pc = "TokenInvalid"

\* C12: a reset request that presents, at the time of its issuance, a token
\* issued by forgot_password for the user its e-mail resolves to is verified
\* as neither invalid nor expired, ends in "password updated", and the
\* user's stored password is then the hash of the submitted password.
C12_RoundTrip ==
    [][(/\ response'.n # response.n
        /\ response'.kind = "reset"
        /\ response'.user # 0
        /\ response'.token \in mailbox
        /\ response'.token.uid = response'.user
        /\ response'.token.issued = clock)
       => /\ ~response'.invalid
          /\ ~response'.expired
          /\ response'.pc = "PasswordUpdated"
          /\ \E u \in users' :
                /\ u.id = response'.user
                /\ u.email = response'.email
                /\ check_password(u, response'.password)]_vars

C12_Witness ==
    /\ response.kind = "reset"
    /\ response.pc = "PasswordUpdated"
    /\ response.token \in mailbox
    /\ response.token.uid = response.user
    /\ response.token.issued = clock
    /\ ~response.invalid
    /\ ~response.expired
    /\ check_password(UserById(users, response.user), response.password)

\* C13: a reset request that presents a token with an intact signature,
\* issued for the user its e-mail resolves to, after the expiry window has
\* elapsed is verified as not invalid and expired, ends in the "expired"
\* outcome with its own message, and leaves the user store as it was.
C13_ExpiredAfterWindow ==
    [][(/\ response'.n # response.n
        /\ response'.kind = "reset"
        /\ response'.user # 0
        /\ response'.token \in mailbox
        /\ response'.token.uid = response'.user
        /\ clock - response'.token.issued > ExpiryWindow)
       => /\ ~response'.invalid
          /\ response'.expired
          /\ response'.pc = "TokenExpired"
          /\ response'.flash = TokenExpiredMsg
          /\ response'.flash # TokenInvalidMsg
          /\ users' = users]_vars

C13_Witness ==
    /\ response.kind = "reset"
    /\ response.pc = "TokenExpired"
    /\ response.flash = TokenExpiredMsg
    /\ response.token \in mailbox
    /\ response.token.uid = response.user
    /\ clock - response.token.issued > ExpiryWindow
    /\ response.expired
    /\ ~response.invalid

\* C14: a forgot-password request whose e-mail matches no account issues
\* and delivers no token, ends with the "not linked" message, and leaves
\* the user store as it was.
C14_UnknownEmailNoToken ==
    [][(/\ response'.n # response.n
        /\ response'.kind = "forgot"
        /\ ByEmail(users, response'.email) = {})
       => /\ mailbox' = mailbox
          /\ response'.token = NoToken
          /\ response'.pc = "NotLinked"
          /\ response'.flash = NotLinkedMsg
          /\ users' = users]_vars

C14_Witness ==
    /\ response.kind = "forgot"
    /\ response.pc = "NotLinked"
    /\ response.flash = NotLinkedMsg
    /\ response.token = NoToken
    /\ ByEmail(users, response.email) = {}
    /\ \A t \in mailbox : t.uid \in {u.id : u \in users}

\* C15: a reset request that presents, for the same e-mail, the token with
\* which the previous request updated the password is accepted again and
\* stores the newly submitted password as long as the expiry window has
\* not elapsed, and ends in "expired" once it has.
C15_TokenReusableUntilExpiry ==
    [][(/\ response'.n # response.n
        /\ response'.kind = "reset"
        /\ UsedJustBefore(response'.email, response'.token))
       => IF clock - response'.token.issued > ExpiryWindow
          THEN /\ response'.pc = "TokenExpired"
               /\ users' = users
          ELSE /\ response'.pc = "PasswordUpdated"
               /\ response'.again
               /\ \E u \in users' :
                     /\ u.id = response'.user
                     /\ check_password(u, response'.password)]_vars

C15_Witness ==
    /\ response.kind = "reset"
    /\ response.again
    /\ response.pc = "PasswordUpdated"
    /\ response.n >= 2
    /\ clock - response.token.issued <= ExpiryWindow
    /\ check_password(UserById(users, response.user), response.password)

\* C16: the step in which a login provisions an account adds exactly one
\* record, with the submitted login as username, the e-mail of the remote
\* answer or "unknown" when the answer has none, the member group, and a
\* password the local check accepts for the submitted password; the
\* session is started for that record.
C16_ProvisionedAccount ==
    [][(/\ response'.n # response.n
        /\ response'.kind = "login"
        /\ response'.created # 0)
       => \E u \in users' :
             /\ users' \ users = {u}
             /\ users \subseteq users'
             /\ u.id = response'.created
             /\ u.username = response'.login
             /\ u.email = IF response'.post.text.email = "absent"
                          THEN "unknown" ELSE response'.post.text.email
             /\ u.primary_group_id = MemberGroup
             /\ check_password(u, response'.password)
             /\ response'.session = u.id
             /\ response'.pc = "Authenticated"]_vars

C16_Witness ==
    /\ response.kind = "login"
    /\ response.pc = "Authenticated"
    /\ response.created # 0
    /\ response.session = response.created
    /\ response.post.text.email = "absent"
    /\ LET u == UserById(users, response.created)
       IN  /\ u.username = response.login
           /\ u.email = "unknown"
           /\ u.primary_group_id = MemberGroup
           /\ check_password(u, response.password)

\* C17: a reset request whose verification reported invalid ends in the
\* "invalid" outcome with the "invalid" message, never in the "expired"
\* one, whether or not expired was reported as well.
C17_InvalidTakesPrecedence ==
    (response.kind = "reset" /\ response.invalid)
    => /\ response.pc = "TokenInvalid"
       /\ response.flash = TokenInvalidMsg
       /\ response.flash # TokenExpiredMsg

C17_Witness ==
    /\ response.kind = "reset"
    /\ response.invalid
    /\ response.expired
    /\ response.pc = "TokenInvalid"
    /\ response.flash = TokenInvalidMsg

\* C18: a login starts a session only in the step in which the local store
\* accepted its login and password for the user of the session, or in the
\* step that saves the account for which the remote service answered "OK"
\* to that request; a login in flight has no session.
C18_SessionOnlyIfAccepted ==
    [][/\ \A r \in Slots : req'[r].kind = "login" => req'[r].session = 0
       /\ (/\ response'.n # response.n
           /\ response'.kind = "login"
           /\ response'.session # 0)
          => \/ /\ response'.calls = 0
                /\ \E u \in Matching(users, response'.login) :
                      /\ u.id = response'.session
                      /\ check_password(u, response'.password)
             \/ /\ response'.calls = 1
                /\ ~response'.post.raised
                /\ response'.post.status_code = HTTP_OK
                /\ response'.post.text.kind = "object"
                /\ response'.post.text.status = "OK"
                /\ \E u \in users' \ users :
                      /\ u.id = response'.session
                      /\ u.username = response'.login]_vars

C18_Witness ==
    /\ response.kind = "login"
    /\ response.pc = "Authenticated"
    /\ response.session # 0
    /\ ~response.authenticated
    /\ response.calls = 1
    /\ response.post.text.status = "OK"
    /\ UserById(users, response.session).username = response.login

\* C19: every reset request ends in one of the outcomes invalid, expired,
\* password updated or form shown again, whatever e-mail it submitted.
C19_ResetAlwaysHandled ==
    response.kind = "reset"
    => response.pc \in {"TokenInvalid", "TokenExpired", "PasswordUpdated",
                        "FormShown"}

\* C20: a login that completes right after a password reset, with the
\* username of the user whose password was reset and a password other than
\* the one now stored (the former password), is not Authenticated, starts
\* no session, creates no account and leaves the user store as it was.
C20_FormerPasswordRefused ==
    [][(/\ response.kind = "reset"
        /\ response.pc = "PasswordUpdated"
        /\ response'.n # response.n
        /\ response'.kind = "login"
        /\ response'.login = UserById(users, response.user).username
        /\ ~check_password(UserById(users, response.user), response'.password))
       => /\ response'.pc # "Authenticated"
          /\ response'.session = 0
          /\ response'.created = 0
          /\ users' = users]_vars

\* the member reset the password p1 to p2 with the token mailed at time 0,
\* then a login with p1 was accepted by the remote service
C20_Witness ==
    /\ nreq = 2
    /\ response.n = 2
    /\ mailbox = {MemberToken}
    /\ users = {[Member EXCEPT !.password = Hash("p2")]}
    /\ response.kind = "login"
    /\ response.login = Member.username
    /\ response.password = "p1"
    /\ RemoteAccepted(response)
    /\ response.pc = "Error"
    /\ response.session = 0
    /\ response.created = 0

====
